---- MODULE Spec2Model ----
(***************************************************************************)
(* Model of src/app.py: one Streamlit script run over an uploaded CSV bank *)
(* statement.  A run reads the table, checks the required columns,         *)
(* categorizes every row, derives the income statement, balance sheet,     *)
(* ratios, charts and valuation, and offers the PDF and Excel exports.     *)
(*                                                                         *)
(* Text (descriptions, keywords, category labels) is a sequence of         *)
(* one-character strings so that str.lower() and the substring tests       *)
(* ("kw" in desc, str.contains) are computed character by character.       *)
(* Amounts are integers.  Quotients are exact rationals [num, den].        *)
(* Tables have at least one row.                                           *)
(***************************************************************************)
EXTENDS Integers, Sequences, FiniteSets, TLC

VARIABLES pc, uploaded_file, df, income, expenses, net_profit, total_assets,
          total_liabilities, equity, ratios, expense_df, cash_flow,
          dcf_ev, ev_ebitda, ev_revenue, bar_chart, line_chart, rendered,
          failed, output, assigned

vars == <<pc, uploaded_file, df, income, expenses, net_profit, total_assets,
          total_liabilities, equity, ratios, expense_df, cash_flow,
          dcf_ev, ev_ebitda, ev_revenue, bar_chart, line_chart, rendered,
          failed, output, assigned>>

\* Largest number of rows of an uploaded table.
MaxRows == 3

-----------------------------------------------------------------------------
(* Text *)

UpperCase == <<"A","B","C","D","E","F","G","H","I","J","K","L","M",
               "N","O","P","Q","R","S","T","U","V","W","X","Y","Z">>
LowerCase == <<"a","b","c","d","e","f","g","h","i","j","k","l","m",
               "n","o","p","q","r","s","t","u","v","w","x","y","z">>

LowerChar(c) ==
    IF \E i \in 1..Len(UpperCase) : UpperCase[i] = c
    THEN LowerCase[CHOOSE i \in 1..Len(UpperCase) : UpperCase[i] = c]
    ELSE c

\* str.lower()
Lower(s) == [i \in 1..Len(s) |-> LowerChar(s[i])]

\* Python's  kw in s  (substring test)
Contains(s, kw) ==
    \E i \in 0..(Len(s) - Len(kw)) : SubSeq(s, i + 1, i + Len(kw)) = kw

\* A missing Description cell is read by pandas as the float NaN.
NaN == <<"NaN">>

\* str(description)
Str(description) ==
    IF description = NaN THEN <<"n","a","n">> ELSE description

KwShell   == <<"s","h","e","l","l">>
KwFuel    == <<"f","u","e","l">>
KwSalary  == <<"s","a","l","a","r","y">>
KwPayroll == <<"p","a","y","r","o","l","l">>
KwRent    == <<"r","e","n","t">>
KwTax     == <<"t","a","x">>
KwVat     == <<"v","a","t">>
KwExpense == <<"E","x","p","e","n","s","e">>

FuelExpense    == <<"F","u","e","l"," ","E","x","p","e","n","s","e">>
PayrollExpense == <<"P","a","y","r","o","l","l"," ","E","x","p","e","n","s","e">>
RentExpense    == <<"R","e","n","t"," ","E","x","p","e","n","s","e">>
Tax            == <<"T","a","x">>
SalesIncome    == <<"S","a","l","e","s"," ","I","n","c","o","m","e">>
OtherExpense   == <<"O","t","h","e","r"," ","E","x","p","e","n","s","e">>

-----------------------------------------------------------------------------
(* categorize *)

categorize_tax_first(description, amount) ==
    LET desc == Lower(Str(description)) IN
    IF Contains(desc, KwShell) \/ Contains(desc, KwFuel) THEN FuelExpense
    ELSE IF Contains(desc, KwSalary) \/ Contains(desc, KwPayroll) THEN PayrollExpense
    ELSE IF \E k \in {KwTax, KwVat} : Contains(desc, k) THEN Tax
    ELSE IF Contains(desc, KwRent) THEN RentExpense
    ELSE IF amount > 0 THEN SalesIncome
    ELSE OtherExpense

categorize_zero_is_income(description, amount) ==
    LET desc == Lower(Str(description)) IN
    IF Contains(desc, KwShell) \/ Contains(desc, KwFuel) THEN FuelExpense
    ELSE IF Contains(desc, KwSalary) \/ Contains(desc, KwPayroll) THEN PayrollExpense
    ELSE IF Contains(desc, KwRent) THEN RentExpense
    ELSE IF \E k \in {KwTax, KwVat} : Contains(desc, k) THEN Tax
    ELSE IF amount >= 0 THEN SalesIncome
    ELSE OtherExpense

categorize_salary_by_sign(description, amount) ==
    LET desc == Lower(Str(description)) IN
    IF Contains(desc, KwShell) \/ Contains(desc, KwFuel) THEN FuelExpense
    ELSE IF (Contains(desc, KwSalary) \/ Contains(desc, KwPayroll)) /\ amount <= 0
         THEN PayrollExpense
    ELSE IF Contains(desc, KwRent) THEN RentExpense
    ELSE IF \E k \in {KwTax, KwVat} : Contains(desc, k) THEN Tax
    ELSE IF amount > 0 THEN SalesIncome
    ELSE OtherExpense

categorize(description, amount) ==
    LET desc == Lower(Str(description)) IN
    IF Contains(desc, KwShell) \/ Contains(desc, KwFuel) THEN FuelExpense
    ELSE IF Contains(desc, KwSalary) \/ Contains(desc, KwPayroll) THEN PayrollExpense
    ELSE IF Contains(desc, KwRent) THEN RentExpense
    ELSE IF \E k \in {KwTax, KwVat} : Contains(desc, k) THEN Tax
    ELSE IF amount > 0 THEN SalesIncome
    ELSE OtherExpense

-----------------------------------------------------------------------------
(* Uploaded tables *)

ShellFuel  == <<"S","h","e","l","l"," ","F","u","e","l">>
Salary     == <<"S","a","l","a","r","y">>
OfficeRent == <<"O","f","f","i","c","e"," ","R","e","n","t">>
Sales      == <<"S","a","l","e","s">>
RentTax    == <<"R","e","n","t"," ","T","a","x">>
VatReturn  == <<"V","A","T">>
Coffee     == <<"C","o","f","f","e","e">>
PayrollRun == <<"P","A","Y","R","O","L","L">>
Taxi       == <<"T","a","x","i">>
Refund     == <<"R","e","f","u","n","d">>

Row(date, description, amount) ==
    [Date |-> date, Description |-> description, Amount |-> amount, Notes |-> "n"]

\* The transactions a statement is made of.
Pool ==
    { Row("2024-01-01", ShellFuel,  -50),
      Row("2024-01-02", Salary,     2000),
      Row("2024-01-03", OfficeRent, -300),
      Row("2024-01-02", Sales,      2000),
      Row("2024-01-03", RentTax,    -300),
      Row("2024-01-01", VatReturn,  -50),
      Row("2024-01-01", Coffee,     -50),
      Row("2024-01-02", NaN,        50),
      Row("2024-01-03", PayrollRun, -300),
      Row("2024-01-01", Taxi,       50),
      Row("2024-01-03", Refund,     0) }

AllColumns == {"Date", "Description", "Amount", "Notes"}

Restrict(row, cols) == [c \in cols |-> row[c]]

\* A CSV file: a header and 1..MaxRows rows holding a value per header column.
Table(cols, rows) ==
    [columns |-> cols, rows |-> [i \in 1..Len(rows) |-> Restrict(rows[i], cols)]]

Tables ==
    { Table(cols, rows) :
        cols \in SUBSET AllColumns,
        rows \in UNION { [1..n -> Pool] : n \in 1..MaxRows } }

NoTable == [columns |-> {}, rows |-> <<>>]
NoRatios == [npm |-> [num |-> 0, den |-> 1], de |-> [num |-> 0, den |-> 1],
             er |-> [num |-> 0, den |-> 1]]
NoOutput == [Transactions |-> <<>>, Statements |-> <<>>]

-----------------------------------------------------------------------------
(* Column operations of the data frame *)

required_cols_with_notes == {"Date", "Description", "Amount", "Notes"}

required_cols == {"Date", "Description", "Amount"}

\* required_cols.issubset(df.columns)
RequiredColsPresent(columns) == required_cols \subseteq columns

SetColumn(row, col, value) ==
    [c \in (DOMAIN row) \cup {col} |-> IF c = col THEN value ELSE row[c]]

\* df["Category"] = df.apply(lambda row: categorize(...), axis=1)
WithCategory(rows) ==
    [i \in 1..Len(rows) |->
        SetColumn(rows[i], "Category",
                  categorize(rows[i].Description, rows[i].Amount))]

\* pd.to_datetime on one ISO date string: <<year, month, day>>
ToDatetime(s) ==
    CASE s = "2024-01-01" -> <<2024, 1, 1>>
      [] s = "2024-01-02" -> <<2024, 1, 2>>
      [] s = "2024-01-03" -> <<2024, 1, 3>>

WithDatesRelabelled(rows) ==
    [i \in 1..Len(rows) |->
        SetColumn(SetColumn(rows[i], "Date", ToDatetime(rows[i].Date)),
                  "Category",
                  IF rows[i].Amount > 0 THEN SalesIncome ELSE OtherExpense)]

\* df["Date"] = pd.to_datetime(df["Date"])
WithDates(rows) ==
    [i \in 1..Len(rows) |-> SetColumn(rows[i], "Date", ToDatetime(rows[i].Date))]

DateLeq(a, b) ==
    \/ a[1] < b[1]
    \/ a[1] = b[1] /\ a[2] < b[2]
    \/ a[1] = b[1] /\ a[2] = b[2] /\ a[3] <= b[3]

RECURSIVE SumAmounts(_)
\* Series.sum() of the Amount column of the given rows
SumAmounts(rows) ==
    IF rows = <<>> THEN 0
    ELSE Head(rows).Amount + SumAmounts(Tail(rows))

Abs(x) == IF x < 0 THEN -x ELSE x

-----------------------------------------------------------------------------
(* Income statement, balance sheet, ratios, charts, valuation *)

\* df[df["Category"] == "Sales Income"]["Amount"].sum()
IncomeOf(rows) ==
    SumAmounts(SelectSeq(rows, LAMBDA r : r.Category = SalesIncome))

ExpensesOfNonIncome(rows) ==
    SumAmounts(SelectSeq(rows, LAMBDA r : r.Category # SalesIncome))

\* df[df["Category"].str.contains("Expense")]["Amount"].sum()
ExpensesOf(rows) ==
    SumAmounts(SelectSeq(rows, LAMBDA r : Contains(r.Category, KwExpense)))

\* income + expenses
NetProfitOf(inc, exp) == inc + exp

\* df["Amount"].sum()
TotalAssetsOf(rows) == SumAmounts(rows)

TotalLiabilitiesSigned(rows) == ExpensesOf(rows)

\* abs(df[df["Category"].str.contains("Expense")]["Amount"].sum())
TotalLiabilitiesOf(rows) == Abs(ExpensesOf(rows))

\* total_assets - total_liabilities
EquityOf(assets, liabilities) == assets - liabilities

Zero == [num |-> 0, den |-> 1]
Undefined == [num |-> 0, den |-> 0]

\* a / b * scale; a zero divisor has no quotient
Quotient(a, b, scale) ==
    IF b = 0 THEN Undefined ELSE [num |-> a * scale, den |-> b]

RatioUnguarded(a, b, scale) == Quotient(a, b, scale)

\* (a / b * scale) if b != 0 else 0
Ratio(a, b, scale) == IF b # 0 THEN Quotient(a, b, scale) ELSE Zero

\* the ratios dict
RatiosOf(np, inc, liab, eq, assets) ==
    [npm |-> Ratio(np, inc, 100),
     de  |-> Ratio(liab, eq, 1),
     er  |-> Ratio(eq, assets, 100)]

\* df[df["Amount"] < 0].groupby("Category")["Amount"].sum().abs()
ExpenseDf(rows) ==
    LET neg  == SelectSeq(rows, LAMBDA r : r.Amount < 0)
        cats == { neg[i].Category : i \in 1..Len(neg) }
    IN [c \in cats |-> Abs(SumAmounts(SelectSeq(neg, LAMBDA r : r.Category = c)))]

BarChartAlways(series) == <<series>>

\* if not expense_df.empty: st.bar_chart(expense_df)
BarChartCalls(series) == IF DOMAIN series # {} THEN <<series>> ELSE <<>>

\* df.groupby("Date")["Amount"].sum().cumsum()
CashFlow(rows) ==
    LET dates == { rows[i].Date : i \in 1..Len(rows) }
    IN [d \in dates |->
          SumAmounts(SelectSeq(rows, LAMBDA r : DateLeq(r.Date, d)))]

DcfEvTimesSix(np) == np * 6

\* net_profit * 5
DcfEv(np) == np * 5

\* net_profit * 6
EvEbitda(np) == np * 6

\* income * 1.5
EvRevenue(inc) == [num |-> inc * 15, den |-> 10]

-----------------------------------------------------------------------------
(* The script run *)

Fresh ==
    /\ df = NoTable
    /\ income = 0 /\ expenses = 0 /\ net_profit = 0
    /\ total_assets = 0 /\ total_liabilities = 0 /\ equity = 0
    /\ ratios = NoRatios
    /\ expense_df = <<>> /\ cash_flow = <<>>
    /\ dcf_ev = 0 /\ ev_ebitda = 0 /\ ev_revenue = Zero
    /\ bar_chart = <<>> /\ line_chart = <<>>
    /\ rendered = {} /\ failed = FALSE
    /\ output = NoOutput
    /\ assigned = {}

\* every name of the previous run is gone when the script starts again
Reset ==
    /\ df' = NoTable
    /\ income' = 0 /\ expenses' = 0 /\ net_profit' = 0
    /\ total_assets' = 0 /\ total_liabilities' = 0 /\ equity' = 0
    /\ ratios' = NoRatios
    /\ expense_df' = <<>> /\ cash_flow' = <<>>
    /\ dcf_ev' = 0 /\ ev_ebitda' = 0 /\ ev_revenue' = Zero
    /\ bar_chart' = <<>> /\ line_chart' = <<>>
    /\ rendered' = {} /\ failed' = FALSE
    /\ output' = NoOutput
    /\ assigned' = {}

Init ==
    /\ pc = "start"
    /\ uploaded_file = <<>>
    /\ Fresh

\* if uploaded_file: is false, the script ends
NoFile ==
    /\ pc = "start" /\ uploaded_file = <<>>
    /\ pc' = "end"
    /\ UNCHANGED <<uploaded_file, df, income, expenses, net_profit, total_assets,
                   total_liabilities, equity, ratios, expense_df, cash_flow,
                   dcf_ev, ev_ebitda, ev_revenue, bar_chart, line_chart,
                   rendered, failed, output, assigned>>

\* the user picks a file in the empty st.file_uploader; Streamlit reruns the
\* script
UploadFile ==
    /\ pc = "end" /\ uploaded_file = <<>>
    /\ \E t \in Tables : uploaded_file' = <<t>>
    /\ pc' = "start"
    /\ Reset

\* the user clears the uploader; Streamlit reruns the script
RemoveFile ==
    /\ pc = "end" /\ uploaded_file # <<>>
    /\ uploaded_file' = <<>>
    /\ pc' = "start"
    /\ Reset

\* any other widget interaction reruns the script with the same file
Rerun ==
    /\ pc = "end" /\ uploaded_file # <<>>
    /\ pc' = "start"
    /\ UNCHANGED uploaded_file
    /\ Reset

ReadCsv ==
    /\ pc = "start" /\ uploaded_file # <<>>
    /\ df' = uploaded_file[1]
    /\ assigned' = assigned \cup {"df"}
    /\ pc' = "check"
    /\ UNCHANGED <<uploaded_file, income, expenses, net_profit, total_assets,
                   total_liabilities, equity, ratios, expense_df, cash_flow,
                   dcf_ev, ev_ebitda, ev_revenue, bar_chart, line_chart,
                   rendered, failed, output>>

ColumnError ==
    /\ pc = "check" /\ ~RequiredColsPresent(df.columns)
    /\ rendered' = rendered \cup {"error"}
    /\ pc' = "end"
    /\ UNCHANGED <<uploaded_file, df, income, expenses, net_profit, total_assets,
                   total_liabilities, equity, ratios, expense_df, cash_flow,
                   dcf_ev, ev_ebitda, ev_revenue, bar_chart, line_chart,
                   failed, output, assigned>>

Categorize ==
    /\ pc = "check" /\ RequiredColsPresent(df.columns)
    /\ df' = [columns |-> df.columns \cup {"Category"},
              rows |-> WithCategory(df.rows)]
    /\ pc' = "dates"
    /\ UNCHANGED <<uploaded_file, income, expenses, net_profit, total_assets,
                   total_liabilities, equity, ratios, expense_df, cash_flow,
                   dcf_ev, ev_ebitda, ev_revenue, bar_chart, line_chart,
                   rendered, failed, output, assigned>>

ParseDates ==
    /\ pc = "dates"
    /\ df' = [df EXCEPT !.rows = WithDates(df.rows)]
    /\ rendered' = rendered \cup {"transactions"}
    /\ pc' = "income_statement"
    /\ UNCHANGED <<uploaded_file, income, expenses, net_profit, total_assets,
                   total_liabilities, equity, ratios, expense_df, cash_flow,
                   dcf_ev, ev_ebitda, ev_revenue, bar_chart, line_chart,
                   failed, output, assigned>>

IncomeStatement ==
    /\ pc = "income_statement"
    /\ income' = IncomeOf(df.rows)
    /\ expenses' = ExpensesOf(df.rows)
    /\ net_profit' = NetProfitOf(income', expenses')
    /\ assigned' = assigned \cup {"income", "expenses", "net_profit"}
    /\ rendered' = rendered \cup {"income_statement"}
    /\ pc' = "balance_sheet"
    /\ UNCHANGED <<uploaded_file, df, total_assets, total_liabilities, equity,
                   ratios, expense_df, cash_flow, dcf_ev, ev_ebitda, ev_revenue,
                   bar_chart, line_chart, failed, output>>

BalanceSheet ==
    /\ pc = "balance_sheet"
    /\ total_assets' = TotalAssetsOf(df.rows)
    /\ total_liabilities' = TotalLiabilitiesOf(df.rows)
    /\ equity' = EquityOf(total_assets', total_liabilities')
    /\ assigned' = assigned \cup {"total_assets", "total_liabilities", "equity"}
    /\ rendered' = rendered \cup {"balance_sheet"}
    /\ pc' = "ratios"
    /\ UNCHANGED <<uploaded_file, df, income, expenses, net_profit, ratios,
                   expense_df, cash_flow, dcf_ev, ev_ebitda, ev_revenue,
                   bar_chart, line_chart, failed, output>>

\* a division by zero raises and ends the run
Ratios ==
    /\ pc = "ratios"
    /\ LET r == RatiosOf(net_profit, income, total_liabilities, equity, total_assets)
       IN IF Undefined \in {r.npm, r.de, r.er}
          THEN /\ failed' = TRUE
               /\ pc' = "end"
               /\ UNCHANGED <<ratios, assigned, rendered>>
          ELSE /\ ratios' = r
               /\ assigned' = assigned \cup {"ratios"}
               /\ rendered' = rendered \cup {"ratios"}
               /\ pc' = "charts"
               /\ UNCHANGED failed
    /\ UNCHANGED <<uploaded_file, df, income, expenses, net_profit, total_assets,
                   total_liabilities, equity, expense_df, cash_flow, dcf_ev,
                   ev_ebitda, ev_revenue, bar_chart, line_chart, output>>

Charts ==
    /\ pc = "charts"
    /\ expense_df' = ExpenseDf(df.rows)
    /\ bar_chart' = BarChartCalls(expense_df')
    /\ cash_flow' = CashFlow(df.rows)
    /\ line_chart' = <<cash_flow'>>
    /\ assigned' = assigned \cup {"expense_df", "cash_flow"}
    /\ rendered' = rendered \cup {"line_chart"}
                      \cup (IF bar_chart' # <<>> THEN {"bar_chart"} ELSE {})
    /\ pc' = "valuation"
    /\ UNCHANGED <<uploaded_file, df, income, expenses, net_profit, total_assets,
                   total_liabilities, equity, ratios, dcf_ev, ev_ebitda,
                   ev_revenue, failed, output>>

Valuation ==
    /\ pc = "valuation"
    /\ dcf_ev' = DcfEv(net_profit)
    /\ ev_ebitda' = EvEbitda(net_profit)
    /\ ev_revenue' = EvRevenue(income)
    /\ assigned' = assigned \cup {"dcf_ev", "ev_ebitda", "ev_revenue"}
    /\ rendered' = rendered \cup {"valuation"}
    /\ pc' = "pdf"
    /\ UNCHANGED <<uploaded_file, df, income, expenses, net_profit, total_assets,
                   total_liabilities, equity, ratios, expense_df, cash_flow,
                   bar_chart, line_chart, failed, output>>

\* st.button("Download PDF"): the report is built and offered only in the run
\* the button press triggered; the temporary file is removed again
PdfExport ==
    /\ pc = "pdf"
    /\ \E pressed \in BOOLEAN :
         rendered' = rendered \cup {"pdf_button"}
                        \cup (IF pressed THEN {"pdf_download"} ELSE {})
    /\ pc' = "excel"
    /\ UNCHANGED <<uploaded_file, df, income, expenses, net_profit, total_assets,
                   total_liabilities, equity, ratios, expense_df, cash_flow,
                   dcf_ev, ev_ebitda, ev_revenue, bar_chart, line_chart,
                   failed, output, assigned>>

ExcelExport ==
    /\ pc = "excel"
    /\ output' = [Transactions |-> df.rows,
                  Statements |-> <<income, expenses, net_profit, total_assets,
                                   total_liabilities, equity>>]
    /\ assigned' = assigned \cup {"output"}
    /\ rendered' = rendered \cup {"excel_download"}
    /\ pc' = "end"
    /\ UNCHANGED <<uploaded_file, df, income, expenses, net_profit, total_assets,
                   total_liabilities, equity, ratios, expense_df, cash_flow,
                   dcf_ev, ev_ebitda, ev_revenue, bar_chart, line_chart, failed>>

Next ==
    \/ NoFile
    \/ UploadFile
    \/ RemoveFile
    \/ Rerun
    \/ ReadCsv
    \/ ColumnError
    \/ Categorize
    \/ ParseDates
    \/ IncomeStatement
    \/ BalanceSheet
    \/ Ratios
    \/ Charts
    \/ Valuation
    \/ PdfExport
    \/ ExcelExport

Spec == Init /\ [][Next]_vars

-----------------------------------------------------------------------------
(* Properties *)

Labels == {FuelExpense, PayrollExpense, RentExpense, Tax, SalesIncome, OtherExpense}
ExpenseLabels == {FuelExpense, PayrollExpense, RentExpense, OtherExpense}

\* the rows as uploaded, before any step of the run touched them
Uploaded == uploaded_file[1]
Rows == 1..Len(df.rows)

Categorized == "Category" \in df.columns
IncomeStatementDone == "net_profit" \in assigned
BalanceSheetDone == "equity" \in assigned
RatiosDone == "ratios" \in assigned
ChartsDone == "cash_flow" \in assigned
ValuationDone == "ev_revenue" \in assigned
RunCompleted == pc = "end" /\ "output" \in assigned

RECURSIVE SumOver(_, _)
\* the sum of the amounts of the rows of df whose index is in S
SumOver(S, rows) ==
    IF S = {} THEN 0
    ELSE LET i == CHOOSE j \in S : TRUE
         IN rows[i].Amount + SumOver(S \ {i}, rows)

\* the rule list of the categorizer, in order
Rules ==
    << [kws |-> {KwShell, KwFuel},     label |-> FuelExpense],
       [kws |-> {KwSalary, KwPayroll}, label |-> PayrollExpense],
       [kws |-> {KwRent},              label |-> RentExpense],
       [kws |-> {KwTax, KwVat},        label |-> Tax] >>

RuleMatches(i, description) ==
    \E k \in Rules[i].kws : Contains(Lower(Str(description)), k)

FirstMatch(description, amount) ==
    LET hits == { i \in 1..Len(Rules) : RuleMatches(i, description) }
    IN IF hits # {}
       THEN Rules[CHOOSE i \in hits : \A j \in hits : i <= j].label
       ELSE IF amount > 0 THEN SalesIncome ELSE OtherExpense

\* C1: every categorized row carries the label of the first rule, in the
\* order fuel, payroll, rent, tax, that its lower-cased description matches,
\* else Sales Income for a positive amount and Other Expense otherwise; a
\* description containing both "rent" and "tax" is Rent Expense whatever the
\* amount.
C1_FirstMatchWins ==
    Categorized =>
      \A i \in Rows :
        LET r == df.rows[i] IN
        /\ r.Category = FirstMatch(r.Description, r.Amount)
        /\ (RuleMatches(3, r.Description) /\ RuleMatches(4, r.Description)
            /\ ~RuleMatches(1, r.Description) /\ ~RuleMatches(2, r.Description))
           => r.Category = RentExpense

C1_Witness ==
    /\ Categorized
    /\ \E i \in Rows :
         /\ df.rows[i].Description = RentTax
         /\ df.rows[i].Category = RentExpense

ScenarioRows ==
    << Row("2024-01-01", ShellFuel,  -50),
       Row("2024-01-02", Salary,     2000),
       Row("2024-01-03", OfficeRent, -300) >>

ScenarioUploaded ==
    /\ uploaded_file # <<>>
    /\ {"Date", "Description", "Amount"} \subseteq Uploaded.columns
    /\ Uploaded = Table(Uploaded.columns, ScenarioRows)

C4_Aggregates ==
    BalanceSheetDone =>
      LET sales == { i \in Rows : df.rows[i].Category = SalesIncome }
          exps  == { i \in Rows : Contains(df.rows[i].Category, KwExpense) }
      IN /\ income = SumOver(sales, df.rows)
         /\ expenses = SumOver(exps, df.rows)
         /\ net_profit = income + expenses
         /\ total_assets = SumOver(Rows, df.rows)
         /\ total_liabilities = (IF expenses < 0 THEN 0 - expenses ELSE expenses)
         /\ total_liabilities >= 0
         /\ equity = total_assets - total_liabilities

C4_Witness ==
    /\ BalanceSheetDone
    /\ income > 0 /\ expenses < 0
    /\ total_liabilities = 0 - expenses
    /\ total_assets # net_profit

\* C5: no run fails in a division; a ratio whose divisor is zero is 0, every
\* computed ratio has a non-zero divisor, and a run that got past the column
\* check ends with the line chart, the valuation and both exports rendered.
C5_NoDivisionByZero ==
    /\ ~failed
    /\ RatiosDone =>
         /\ income = 0 => ratios.npm = Zero
         /\ equity = 0 => ratios.de = Zero
         /\ total_assets = 0 => ratios.er = Zero
         /\ ratios.npm.den # 0 /\ ratios.de.den # 0 /\ ratios.er.den # 0
         /\ income # 0 => ratios.npm = [num |-> net_profit * 100, den |-> income]
         /\ equity # 0 => ratios.de = [num |-> total_liabilities, den |-> equity]
         /\ total_assets # 0 => ratios.er = [num |-> equity * 100, den |-> total_assets]
    /\ (pc = "end" /\ BalanceSheetDone) =>
         {"ratios", "line_chart", "valuation", "pdf_button", "excel_download"}
            \subseteq rendered

C5_Witness ==
    /\ RunCompleted
    /\ income = 0 /\ equity = 0 /\ total_assets = 0
    /\ ratios.npm = Zero /\ ratios.de = Zero /\ ratios.er = Zero
    /\ {"valuation", "excel_download"} \subseteq rendered

\* C6: a run over a table lacking one of Date, Description, Amount renders
\* the error and nothing else, assigns no name but df, leaves the rows
\* uncategorized and offers no chart or export; a run over a table with all
\* three columns never renders the error, categorizes, and ends with the
\* exports rendered.
C6_RequiredColumns ==
    uploaded_file # <<>> =>
      IF {"Date", "Description", "Amount"} \subseteq Uploaded.columns
      THEN /\ "error" \notin rendered
           /\ pc \notin {"start", "check"} => Categorized
           /\ pc = "end" => RunCompleted /\ "excel_download" \in rendered
      ELSE /\ pc \in {"start", "check", "end"}
           /\ pc = "end" => rendered = {"error"}
           /\ rendered \subseteq {"error"}
           /\ assigned \subseteq {"df"}
           /\ ~Categorized
           /\ bar_chart = <<>> /\ line_chart = <<>> /\ output = NoOutput

C6_Witness ==
    /\ uploaded_file # <<>>
    /\ Uploaded.columns = {"Date", "Description", "Notes"}
    /\ pc = "end"
    /\ rendered = {"error"}

\* C7: in every state after the categorizer step each row carries one
\* category, one of the six labels, equal to the label the categorizer gives
\* the row's uploaded description and amount; rows with the same description
\* and amount carry the same label.
C7_CategoryFixed ==
    Categorized =>
      /\ Len(df.rows) = Len(Uploaded.rows)
      /\ \A i \in Rows :
           /\ df.rows[i].Category \in Labels
           /\ df.rows[i].Category =
                categorize(Uploaded.rows[i].Description, Uploaded.rows[i].Amount)
      /\ \A i, j \in Rows :
           (/\ Uploaded.rows[i].Description = Uploaded.rows[j].Description
            /\ Uploaded.rows[i].Amount = Uploaded.rows[j].Amount)
           => df.rows[i].Category = df.rows[j].Category

C7_Witness ==
    /\ RunCompleted
    /\ Len(df.rows) >= 2
    /\ df.rows[1].Description = df.rows[2].Description
    /\ df.rows[1].Amount = df.rows[2].Amount
    /\ df.rows[1].Category = df.rows[2].Category
    /\ df.rows[1].Date # Uploaded.rows[1].Date

\* C8: once the valuation is computed, the DCF proxy is 5 times and the
\* EV/EBITDA proxy 6 times the run's net profit, and the revenue multiple is
\* 1.5 times the run's income; net profit 1650 and income 2000 give 8250, 9900
\* and 3000.
C8_Valuation ==
    ValuationDone =>
      /\ net_profit = income + expenses
      /\ dcf_ev = net_profit * 5
      /\ ev_ebitda = net_profit * 6
      /\ ev_revenue.den # 0
      /\ ev_revenue.num * 2 = income * 3 * ev_revenue.den
      /\ (net_profit = 1650 /\ income = 2000) =>
           /\ dcf_ev = 8250
           /\ ev_ebitda = 9900
           /\ ev_revenue.num = 3000 * ev_revenue.den

C8_Witness ==
    /\ ValuationDone
    /\ net_profit = 1650 /\ income = 2000
    /\ dcf_ev = 8250 /\ ev_ebitda = 9900

NoNegativeAmount == \A i \in Rows : df.rows[i].Amount >= 0

\* C9 as stated: when no row has a negative amount the bar chart component
\* receives an empty series.
C9_EmptySeriesAsStated ==
    (ChartsDone /\ NoNegativeAmount) => bar_chart = << <<>> >>

\* C9 amended: when no row has a negative amount the expense series is empty
\* and the bar chart component is not called at all; the run does not fail,
\* the cumulative line chart is rendered and the run ends with the valuation
\* and the exports rendered.
C9_EmptySeriesAmended ==
    (ChartsDone /\ NoNegativeAmount) =>
      /\ expense_df = <<>>
      /\ bar_chart = <<>>
      /\ "bar_chart" \notin rendered
      /\ ~failed
      /\ line_chart = <<cash_flow>> /\ "line_chart" \in rendered
      /\ pc = "end" =>
           {"valuation", "pdf_button", "excel_download"} \subseteq rendered

C9_Witness ==
    /\ RunCompleted
    /\ NoNegativeAmount
    /\ bar_chart = <<>>
    /\ {"line_chart", "valuation", "excel_download"} \subseteq rendered

TaxRows == { i \in Rows : df.rows[i].Category = Tax }

\* C10: Tax rows are counted in neither income nor expenses but in total
\* assets: income and expenses are those of the table without its Tax rows,
\* total assets = net profit + the sum of the Tax amounts, and total assets =
\* net profit exactly when the Tax amounts sum to zero.
C10_TaxOnlyInAssets ==
    BalanceSheetDone =>
      LET others == Rows \ TaxRows
          taxsum == SumOver(TaxRows, df.rows)
      IN /\ income = SumOver({ i \in others : df.rows[i].Category = SalesIncome }, df.rows)
         /\ expenses = SumOver({ i \in others : df.rows[i].Category \in ExpenseLabels }, df.rows)
         /\ income + expenses = SumOver(others, df.rows)
         /\ total_liabilities = Abs(SumOver(others, df.rows) - income)
         /\ total_assets = net_profit + taxsum
         /\ (total_assets = net_profit) <=> (taxsum = 0)

C10_Witness ==
    /\ BalanceSheetDone
    /\ Cardinality(TaxRows) = 2
    /\ SumOver(TaxRows, df.rows) = 0
    /\ total_assets = net_profit
    /\ net_profit # 0
====
